---- MODULE Spec2Model ----
(***************************************************************************)
(* markuplint: the attribute type dispatcher (attr-check.ts) and two rules *)
(* that walk a document (class-naming, no-empty-palpable-content).         *)
(*                                                                         *)
(* A string is a sequence of one-character strings; a message is a         *)
(* sequence of non-empty text chunks, so that a message is the empty       *)
(* string exactly when it is the empty sequence.                           *)
(***************************************************************************)
EXTENDS Integers, Sequences, FiniteSets, TLC

VARIABLES
    pc,       \* position of the attrCheck call: "idle" | "done"
    call,     \* the arguments of the call: [t, name, value, isCustomRule, spec]
    result,   \* what attrCheck returned
    doc,      \* the document a rule verifies: [rule, nodes]
    wpc,      \* position of walkOn: "idle" | "walking" | "resolved"
    vpc,      \* the promise of verify: "idle" | "pending" | "resolved"
    awaiting, \* the elements whose callback walkOn awaits
    pending,  \* the nodes walkOn has still to visit, the next one first
    visited,  \* the elements the rule's callback was invoked for, in order
    reports   \* the diagnostics reported, in order

vars == <<pc, call, result, doc, wpc, vpc, awaiting, pending, visited, reports>>

-----------------------------------------------------------------------------
(* Bounds of the model *)

MaxValueLen == 2
MaxNameSuffix == 1
MaxNodes == 3
MaxTokens == 2

-----------------------------------------------------------------------------
(* Strings *)

RECURSIVE StringsUpTo(_, _)
StringsUpTo(chars, n) ==
    IF n = 0 THEN {<<>>}
    ELSE LET shorter == StringsUpTo(chars, n - 1)
         IN  shorter \cup {Append(s, c) : s \in shorter, c \in chars}

UpperChars ==
    <<"A", "B", "C", "D", "E", "F", "G", "H", "I", "J", "K", "L", "M",
      "N", "O", "P", "Q", "R", "S", "T", "U", "V", "W", "X", "Y", "Z">>

LowerChars ==
    <<"a", "b", "c", "d", "e", "f", "g", "h", "i", "j", "k", "l", "m",
      "n", "o", "p", "q", "r", "s", "t", "u", "v", "w", "x", "y", "z">>

toLowerChar(c) ==
    IF \E i \in 1..Len(UpperChars) : UpperChars[i] = c
    THEN LowerChars[CHOOSE i \in 1..Len(UpperChars) : UpperChars[i] = c]
    ELSE c

\* String.prototype.toLowerCase
toLowerCase(s) == [i \in 1..Len(s) |-> toLowerChar(s[i])]

\* Array.prototype.includes
includes(list, s) == \E i \in 1..Len(list) : list[i] = s

StartsWith(s, prefix) ==
    /\ Len(s) >= Len(prefix)
    /\ SubSeq(s, 1, Len(prefix)) = prefix

-----------------------------------------------------------------------------
(* Primitive value checkers (./primitive-check, described in spec section  *)
(* 4.1).  The values of this model carry no exponent marker.               *)

Digits == <<"0", "1", "2", "3", "4", "5", "6", "7", "8", "9">>

IsDigit(c) == \E i \in 1..Len(Digits) : Digits[i] = c

DigitVal(c) == (CHOOSE i \in 1..Len(Digits) : Digits[i] = c) - 1

AllDigits(s) == Len(s) > 0 /\ \A i \in 1..Len(s) : IsDigit(s[i])

RECURSIVE ToNat(_)
ToNat(s) ==
    IF s = <<>> THEN 0
    ELSE 10 * ToNat(SubSeq(s, 1, Len(s) - 1)) + DigitVal(s[Len(s)])

RECURSIVE Pow10(_)
Pow10(n) == IF n = 0 THEN 1 ELSE 10 * Pow10(n - 1)

IsNegative(s) == s # <<>> /\ s[1] = "-"

Unsigned(s) == IF IsNegative(s) THEN Tail(s) ELSE s

\* the index of the first "." of s, or 0
DotAt(s) ==
    IF \E i \in 1..Len(s) : s[i] = "."
    THEN CHOOSE i \in 1..Len(s) : s[i] = "." /\ \A j \in 1..(i - 1) : s[j] # "."
    ELSE 0

IntPart(s) == IF DotAt(s) = 0 THEN s ELSE SubSeq(s, 1, DotAt(s) - 1)

FracPart(s) == IF DotAt(s) = 0 THEN <<>> ELSE SubSeq(s, DotAt(s) + 1, Len(s))

\* an optionally-signed base-10 integer with no extraneous characters
intCheck(s) == AllDigits(Unsigned(s))

\* parseInt of a string that passes intCheck
parseInt(s) == IF IsNegative(s) THEN 0 - ToNat(Unsigned(s)) ELSE ToNat(s)

uintCheck(s) == intCheck(s) /\ parseInt(s) >= 0

nonZeroUintCheck(s) == intCheck(s) /\ parseInt(s) > 0

\* a base-10 floating point literal: optional sign, optional fractional part
floatCheck(s) ==
    LET u == Unsigned(s)
    IN  /\ AllDigits(IntPart(u))
        /\ DotAt(u) # 0 => AllDigits(FracPart(u))

\* the numeric value of a string that passes floatCheck, as a fraction
\* Numerator / 10^Scale
Scale(s) == Len(FracPart(Unsigned(s)))

Numerator(s) ==
    LET u == Unsigned(s)
        n == ToNat(IntPart(u) \o FracPart(u))
    IN  IF IsNegative(s) THEN 0 - n ELSE n

\* the numeric value lies in [min, max] inclusive; unparseable input is false
range(s, min, max) ==
    /\ floatCheck(s)
    /\ min * Pow10(Scale(s)) <= Numerator(s)
    /\ Numerator(s) <= max * Pow10(Scale(s))

IsNumericChar(c) == IsDigit(c) \/ c \in {".", "-"}

\* the length of the longest trailing non-numeric suffix
UnitLen(s) ==
    CHOOSE k \in 0..Len(s) :
        /\ \A i \in (Len(s) - k + 1)..Len(s) : ~IsNumericChar(s[i])
        /\ k < Len(s) => IsNumericChar(s[Len(s) - k])

splitUnit(s) ==
    [num  |-> SubSeq(s, 1, Len(s) - UnitLen(s)),
     unit |-> SubSeq(s, Len(s) - UnitLen(s) + 1, Len(s))]

numberCheckWithUnit(s, units) ==
    /\ floatCheck(splitUnit(s).num)
    /\ includes(units, splitUnit(s).unit)

-----------------------------------------------------------------------------
(* The translator (@markuplint/i18n, described in spec section 6)          *)

Lit(text) == [kind |-> "lit", text |-> text, index |-> 0]
Arg(index) == [kind |-> "arg", text |-> "", index |-> index]

\* a keyword passed to the translator
Word(text) == <<text>>

RECURSIVE FormatFrom(_, _, _)
FormatFrom(tpl, args, i) ==
    IF i > Len(tpl) THEN <<>>
    ELSE (IF tpl[i].kind = "lit" THEN <<tpl[i].text>> ELSE args[tpl[i].index + 1])
         \o FormatFrom(tpl, args, i + 1)

RECURSIVE JoinFrom(_, _)
JoinFrom(items, i) ==
    IF i > Len(items) THEN <<>>
    ELSE (IF i > 1 THEN <<", ">> ELSE <<>>)
         \o <<"\"">> \o items[i] \o <<"\"">>
         \o JoinFrom(items, i + 1)

\* the translators a caller may pass: "format" fills the placeholders of the
\* template; "blank" is a translator that answers every call with ''
Translators == {"format", "blank"}

\* t(template, ...args)
Translate(t, tpl, args) ==
    IF t = "blank" THEN <<>> ELSE FormatFrom(tpl, args, 1)

\* t([...items])
TranslateList(t, items) ==
    IF t = "blank" THEN <<>> ELSE JoinFrom(items, 1)

Tpl_Is == <<Arg(0), Lit(" is "), Arg(1)>>
Tpl_TheNamed == <<Lit("the \""), Arg(0), Lit("\" "), Arg(1)>>
Tpl_MustNotBe == <<Arg(0), Lit(" must not be "), Arg(1)>>
Tpl_Of == <<Arg(0), Lit(" of "), Arg(1)>>
Tpl_The == <<Lit("the "), Arg(0)>>
Tpl_Expects == <<Arg(0), Lit(" expects "), Arg(1)>>
Tpl_GreaterThan == <<Arg(0), Lit(" greater than "), Arg(1)>>
Tpl_InRange == <<Lit("in the range between "), Arg(0), Lit(" and "), Arg(1)>>
Tpl_And == <<Arg(0), Lit(" and "), Arg(1)>>
Tpl_LessOrEqual == <<Lit("less than or equal to "), Arg(0)>>
Tpl_BehavesSame == <<Arg(0), Lit(" behaves the same as "), Arg(1), Lit(" if "), Arg(2)>>
Tpl_LessThan == <<Lit("less than "), Arg(0)>>
Tpl_Either == <<Lit("either "), Arg(0)>>
Tpl_Valid == <<Lit("valid "), Arg(0)>>
Tpl_As == <<Arg(0), Lit(" as "), Arg(1)>>
Tpl_To == <<Arg(0), Lit(" to "), Arg(1)>>

-----------------------------------------------------------------------------
(* valueCheck: string | false *)

False == [isFalse |-> TRUE, message |-> <<>>]
Str(message) == [isFalse |-> FALSE, message |-> message]

\* JavaScript truthiness of a string | false
Truthy(v) == ~v.isFalse /\ v.message # <<>>

\* t('the "{0}" {1}', name, 'attribute')
t_theNameAttribute(t, name) == Translate(t, Tpl_TheNamed, <<name, Word("attribute")>>)

\* a slip: the value is compared as written
includesEnum_caseSensitive(t, name, value, enumValues) ==
    IF includes(enumValues, value)
    THEN False
    ELSE Str(Translate(t, Tpl_Expects,
                 <<Translate(t, Tpl_TheNamed, <<name, Word("attribute")>>),
                   Translate(t, Tpl_Either, <<TranslateList(t, enumValues)>>)>>))

includesEnum(t, name, value, enumValues) ==
    IF includes(enumValues, toLowerCase(value))
    THEN False
    ELSE Str(Translate(t, Tpl_Expects,
                 <<Translate(t, Tpl_TheNamed, <<name, Word("attribute")>>),
                   Translate(t, Tpl_Either, <<TranslateList(t, enumValues)>>)>>))

nonEmptyStringMessage(t, name) ==
    Str(Translate(t, Tpl_MustNotBe,
            <<Translate(t, Tpl_Of,
                  <<Translate(t, Tpl_The, <<Word("value")>>), t_theNameAttribute(t, name)>>),
              Word("empty string")>>))

checkInt(t, name, value) ==
    IF intCheck(value) THEN False
    ELSE Str(Translate(t, Tpl_Expects, <<t_theNameAttribute(t, name), Word("integer")>>))

checkUint(t, name, value) ==
    IF uintCheck(value) THEN False
    ELSE Str(Translate(t, Tpl_Expects,
                 <<t_theNameAttribute(t, name), Word("non-negative integer")>>))

checkFloat(t, name, value) ==
    IF floatCheck(value) THEN False
    ELSE Str(Translate(t, Tpl_Expects,
                 <<t_theNameAttribute(t, name), Word("floating-point number")>>))

checkNonZeroUint(t, name, value) ==
    IF nonZeroUintCheck(value) THEN False
    ELSE Str(Translate(t, Tpl_Expects,
                 <<t_theNameAttribute(t, name),
                   Translate(t, Tpl_GreaterThan,
                       <<Word("floating-point number"), Word("zero")>>)>>))

checkZeroToOne(t, name, value) ==
    IF range(value, 0, 1) THEN False
    ELSE Str(Translate(t, Tpl_Expects,
                 <<t_theNameAttribute(t, name),
                   Translate(t, Tpl_InRange, <<Word("zero"), Word("one")>>)>>))

ColSpanMax == 1000
RowSpanMax == 65534

spanMessage(t, name, max) ==
    Str(Translate(t, Tpl_Expects,
            <<t_theNameAttribute(t, name),
              Translate(t, Tpl_And,
                  <<Translate(t, Tpl_GreaterThan,
                        <<Word("non-negative integer"), Word("zero")>>),
                    Translate(t, Tpl_LessOrEqual, <<Word(ToString(max))>>)>>)>>))

\* a slip: the integer test is dropped
checkColSpan_rangeOnly(t, name, value) ==
    IF range(value, 0, ColSpanMax) THEN False
    ELSE spanMessage(t, name, ColSpanMax)

checkColSpan(t, name, value) ==
    IF intCheck(value) /\ range(value, 0, ColSpanMax) THEN False
    ELSE spanMessage(t, name, ColSpanMax)

checkRowSpan(t, name, value) ==
    IF intCheck(value) /\ range(value, 0, RowSpanMax) THEN False
    ELSE spanMessage(t, name, RowSpanMax)

ReferrerPolicyValues ==
    << <<>>,
       <<"n", "o", "-", "r", "e", "f", "e", "r", "r", "e", "r">>,
       <<"n", "o", "-", "r", "e", "f", "e", "r", "r", "e", "r", "-", "w", "h", "e", "n", "-", "d", "o", "w", "n", "g", "r", "a", "d", "e">>,
       <<"s", "a", "m", "e", "-", "o", "r", "i", "g", "i", "n">>,
       <<"o", "r", "i", "g", "i", "n">>,
       <<"s", "t", "r", "i", "c", "t", "-", "o", "r", "i", "g", "i", "n">>,
       <<"o", "r", "i", "g", "i", "n", "-", "w", "h", "e", "n", "-", "c", "r", "o", "s", "s", "-", "o", "r", "i", "g", "i", "n">>,
       <<"s", "t", "r", "i", "c", "t", "-", "o", "r", "i", "g", "i", "n", "-", "w", "h", "e", "n", "-", "c", "r", "o", "s", "s", "-", "o", "r", "i", "g", "i", "n">>,
       <<"u", "n", "s", "a", "f", "e", "-", "u", "r", "l">> >>

checkReferrerPolicy(t, name, value) == includesEnum(t, name, value, ReferrerPolicyValues)

behavesSameMessage(t, name) ==
    Str(Translate(t, Tpl_BehavesSame,
            <<t_theNameAttribute(t, name), Word("-1"),
              Translate(t, Tpl_LessThan, <<Word("-1")>>)>>))

eitherTabIndexMessage(t, name) ==
    Str(Translate(t, Tpl_Expects,
            <<t_theNameAttribute(t, name),
              Translate(t, Tpl_Either,
                  <<TranslateList(t,
                        <<Word("-1"), Word("zero"), Word("non-negative integer")>>)>>)>>))

\* a slip: the floor is zero
checkTabIndex_zeroFloor(t, name, value) ==
    IF intCheck(value) /\ 0 <= parseInt(value) THEN False
    ELSE IF intCheck(value) /\ 0 > parseInt(value) THEN behavesSameMessage(t, name)
    ELSE eitherTabIndexMessage(t, name)

checkTabIndex(t, name, value) ==
    IF intCheck(value) /\ -1 <= parseInt(value) THEN False
    ELSE IF intCheck(value) /\ -1 > parseInt(value) THEN behavesSameMessage(t, name)
    ELSE eitherTabIndexMessage(t, name)

checkURLHash(t, name, value) ==
    IF value # <<>> /\ value[1] = "#" THEN False
    ELSE Str(Translate(t, Tpl_Expects,
                 <<t_theNameAttribute(t, name),
                   Translate(t, Tpl_Valid, <<Word("hash-name reference")>>)>>))

CSSAngleUnits ==
    << <<"d", "e", "g">>, <<"g", "r", "a", "d">>, <<"r", "a", "d">>, <<"t", "u", "r", "n">> >>

checkCSSAngle(t, name, value) ==
    IF numberCheckWithUnit(value, CSSAngleUnits) THEN False
    ELSE Str(Translate(t, Tpl_Expects, <<t_theNameAttribute(t, name), Word("angle")>>))

CSSBlendModeValues ==
    << <<"n", "o", "r", "m", "a", "l">>,
       <<"m", "u", "l", "t", "i", "p", "l", "y">>,
       <<"s", "c", "r", "e", "e", "n">>,
       <<"o", "v", "e", "r", "l", "a", "y">>,
       <<"d", "a", "r", "k", "e", "n">>,
       <<"l", "i", "g", "h", "t", "e", "n">>,
       <<"c", "o", "l", "o", "r", "-", "d", "o", "d", "g", "e">>,
       <<"c", "o", "l", "o", "r", "-", "b", "u", "r", "n">>,
       <<"h", "a", "r", "d", "-", "l", "i", "g", "h", "t">>,
       <<"s", "o", "f", "t", "-", "l", "i", "g", "h", "t">>,
       <<"d", "i", "f", "f", "e", "r", "e", "n", "c", "e">>,
       <<"e", "x", "c", "l", "u", "s", "i", "o", "n">>,
       <<"h", "u", "e">>,
       <<"s", "a", "t", "u", "r", "a", "t", "i", "o", "n">>,
       <<"c", "o", "l", "o", "r">>,
       <<"l", "u", "m", "i", "n", "o", "s", "i", "t", "y">> >>

checkCSSBlendMode(t, name, value) == includesEnum(t, name, value, CSSBlendModeValues)

alphaMessage(t, name, from, to) ==
    Str(Translate(t, Tpl_Expects,
            <<t_theNameAttribute(t, name),
              Translate(t, Tpl_As,
                  <<Translate(t, Tpl_To, <<Word(from), Word(to)>>),
                    Word("alpha channel value")>>)>>))

checkCSSOpacity(t, name, value) ==
    LET num  == splitUnit(value).num
        unit == splitUnit(value).unit
    IN  IF unit = <<"%">>
        THEN IF range(num, 0, 100) THEN False ELSE alphaMessage(t, name, "0%", "100%")
        ELSE IF range(num, 0, 1) THEN False ELSE alphaMessage(t, name, "0", "1")

\* the named types whose branch is a bare `return false`
NoCheckTypes ==
    {"Boolean", "Function", "Date",
     "AcceptList", "AutoComplete", "BCP47", "Color",
     "Coords", "Crossorigin", "DateTime", "Destination", "DOMID", "DOMIDList",
     "IRI", "ItemType", "LinkSizes", "LinkType", "LinkTypeList", "MediaQuery",
     "MediaQueryList", "MIMEType",
     "SourceSizeList", "SrcSet",
     "Target", "URL", "URLList",
     "CSSClipPath", "CSSCustomIdent", "CSSDisplay", "CSSFilter", "CSSFontFamily",
     "CSSFontSize", "CSSFontVariant", "CSSFontWeight", "CSSMask",
     "CSSTextDecoration", "CSSTransformList", "CSSTransformOrigin", "CSSURL",
     "SVGAnimatableValue", "SVGBeginValueList", "SVGClockValue", "SVGColorMatrix",
     "SVGDashArray", "SVGEndValueList", "SVGFilterPrimitiveReference",
     "SVGKernelMatrix", "SVGKeyPoints", "SVGKeySplines", "SVGKeyTimes",
     "SVGLanguageTags", "SVGLength", "SVGLengthList", "SVGNumberList",
     "SVGNumberOptionalNumber", "SVGOrigin", "SVGPaint", "SVGPathCommands",
     "SVGPercentage", "SVGPercentageList", "SVGPoints", "SVGPreserveAspectRatio",
     "SVGViewBox"}

\* the named types whose branch checks the value
CheckedTypes ==
    {"Int", "Uint", "Float", "NonZeroUint", "ZeroToOne", "ColSpan",
     "ReferrerPolicy", "RowSpan", "TabIndex", "URLHash", "CSSAngle",
     "CSSBlendMode", "CSSOpacity"}

\* an attribute spec: type is a named tag, or an object carrying an enum list
NamedSpec(type) == [defined |-> TRUE, hasEnum |-> FALSE, type |-> type, enum |-> <<>>]
EnumSpec(enum) == [defined |-> TRUE, hasEnum |-> TRUE, type |-> "", enum |-> enum]
NoSpec == [defined |-> FALSE, hasEnum |-> FALSE, type |-> "", enum |-> <<>>]

\* the branches of valueCheck that check the value, by type tag
checkByType(t, name, value, type) ==
    CASE type = "Int" -> checkInt(t, name, value)
      [] type = "Uint" -> checkUint(t, name, value)
      [] type = "Float" -> checkFloat(t, name, value)
      [] type = "NonZeroUint" -> checkNonZeroUint(t, name, value)
      [] type = "ZeroToOne" -> checkZeroToOne(t, name, value)
      [] type = "ColSpan" -> checkColSpan(t, name, value)
      [] type = "ReferrerPolicy" -> checkReferrerPolicy(t, name, value)
      [] type = "RowSpan" -> checkRowSpan(t, name, value)
      [] type = "TabIndex" -> checkTabIndex(t, name, value)
      [] type = "URLHash" -> checkURLHash(t, name, value)
      [] type = "CSSAngle" -> checkCSSAngle(t, name, value)
      [] type = "CSSBlendMode" -> checkCSSBlendMode(t, name, value)
      [] type = "CSSOpacity" -> checkCSSOpacity(t, name, value)
      [] OTHER -> False

\* a slip: the empty value is rejected whatever the type
valueCheck_emptyRejected(t, name, value, spec) ==
    IF spec.hasEnum THEN includesEnum(t, name, value, spec.enum)
    ELSE IF value = <<>> THEN nonEmptyStringMessage(t, name)
    ELSE IF spec.type \in NoCheckTypes THEN False
    ELSE checkByType(t, name, value, spec.type)

valueCheck(t, name, value, spec) ==
    IF spec.hasEnum THEN includesEnum(t, name, value, spec.enum)
    ELSE IF spec.type = "NonEmptyString" /\ value = <<>> THEN nonEmptyStringMessage(t, name)
    ELSE IF spec.type \in NoCheckTypes THEN False
    ELSE checkByType(t, name, value, spec.type)

-----------------------------------------------------------------------------
(* attrCheck: Invalid | false *)

Valid == [invalid |-> FALSE, invalidType |-> "", message |-> <<>>]
Invalid(invalidType, message) ==
    [invalid |-> TRUE, invalidType |-> invalidType, message |-> message]

DataPrefix == <<"d", "a", "t", "a", "-">>
AriaPrefix == <<"a", "r", "i", "a", "-">>
RoleName == <<"r", "o", "l", "e">>

\* /^data-.+$/.test(name); an attribute name holds no line terminator
isDataName(name) == StartsWith(name, DataPrefix) /\ Len(name) > Len(DataPrefix)

\* /^aria-.+$|^role$/.test(name)
isAriaName(name) ==
    \/ StartsWith(name, AriaPrefix) /\ Len(name) > Len(AriaPrefix)
    \/ name = RoleName

nonExistent(t, name) ==
    Invalid("non-existent",
        Translate(t, Tpl_Is,
            <<Translate(t, Tpl_TheNamed, <<name, Word("attribute")>>), Word("disallow")>>))

\* a slip: the existence test comes first
attrCheck_existenceFirst(t, name, value, isCustomRule, spec) ==
    IF ~spec.defined THEN nonExistent(t, name)
    ELSE IF ~isCustomRule /\ isDataName(name) THEN Valid
    ELSE IF ~isCustomRule /\ isAriaName(name) THEN Valid
    ELSE IF Truthy(valueCheck(t, name, value, spec))
         THEN Invalid("invalid-value", valueCheck(t, name, value, spec).message)
    ELSE Valid

\* a slip: the exemption ignores isCustomRule
attrCheck_flagIgnored(t, name, value, isCustomRule, spec) ==
    IF isDataName(name) THEN Valid
    ELSE IF isAriaName(name) THEN Valid
    ELSE IF ~spec.defined THEN nonExistent(t, name)
    ELSE IF Truthy(valueCheck(t, name, value, spec))
         THEN Invalid("invalid-value", valueCheck(t, name, value, spec).message)
    ELSE Valid

\* a slip: the aria-*/role test lacks `!isCustomRule`
attrCheck_ariaAlways(t, name, value, isCustomRule, spec) ==
    IF ~isCustomRule /\ isDataName(name) THEN Valid
    ELSE IF isAriaName(name) THEN Valid
    ELSE IF ~spec.defined THEN nonExistent(t, name)
    ELSE IF Truthy(valueCheck(t, name, value, spec))
         THEN Invalid("invalid-value", valueCheck(t, name, value, spec).message)
    ELSE Valid

\* a slip: `invalid !== false` in place of `invalid`
attrCheck_notFalse(t, name, value, isCustomRule, spec) ==
    IF ~isCustomRule /\ isDataName(name) THEN Valid
    ELSE IF ~isCustomRule /\ isAriaName(name) THEN Valid
    ELSE IF ~spec.defined THEN nonExistent(t, name)
    ELSE IF ~valueCheck(t, name, value, spec).isFalse
         THEN Invalid("invalid-value", valueCheck(t, name, value, spec).message)
    ELSE Valid

attrCheck(t, name, value, isCustomRule, spec) ==
    IF ~isCustomRule /\ isDataName(name) THEN Valid
    ELSE IF ~isCustomRule /\ isAriaName(name) THEN Valid
    ELSE IF ~spec.defined THEN nonExistent(t, name)
    ELSE IF Truthy(valueCheck(t, name, value, spec))
         THEN Invalid("invalid-value", valueCheck(t, name, value, spec).message)
    ELSE Valid

-----------------------------------------------------------------------------
(* The calls of attrCheck *)

ValueChars == {"-", "0", "1", "5", ".", "%", "x"}

\* values at the boundaries of the checked types
BoundaryValues ==
    { <<"1", "0", "0", "0">>, <<"1", "0", "0", "1">>,
      <<"6", "5", "5", "3", "4">>, <<"6", "5", "5", "3", "5">>,
      <<"0", ".", "5">>, <<"1", ".", "1">>, <<"1", ".", "5">>, <<"-", "1", ".", "5">>,
      <<"5", "0", "%">>, <<"1", "0", "0", "%">>, <<"1", "0", "1", "%">>,
      <<"0", ".", "5", "%">>, <<"0", ".", "5", "x">>,
      <<"X">>, <<"#">>, <<"#", "t", "o", "p">>, <<"t", "o", "p">>,
      <<"n", "o", "-", "r", "e", "f", "e", "r", "r", "e", "r">>,
      <<"N", "o", "-", "R", "e", "f", "e", "r", "r", "e", "r">>,
      <<"b", "o", "g", "u", "s">>,
      <<"h", "u", "e">>, <<"M", "U", "L", "T", "I", "P", "L", "Y">>,
      <<"5", "d", "e", "g">>, <<"5", "D", "E", "G">> }

Values == StringsUpTo(ValueChars, MaxValueLen) \cup BoundaryValues

\* names around the exemption patterns: an optional leading character, a
\* stem, and a suffix
NameStems == {<<>>, DataPrefix, AriaPrefix, RoleName, <<"h", "r", "e", "f">>}

Names ==
    {lead \o stem \o tail :
        lead \in {<<>>, <<"x">>}, stem \in NameStems,
        tail \in StringsUpTo({"x", "-"}, MaxNameSuffix)}

\* enum lists: a member in lower case, the empty string, a member in upper case
EnumLists == { << <<"x">> >>, << <<"x">>, <<>> >>, << <<"X">> >>, <<>> }

Specs ==
    {NoSpec}
        \cup {NamedSpec(type) : type \in NoCheckTypes \cup CheckedTypes \cup {"NonEmptyString", "String"}}
        \cup {EnumSpec(enum) : enum \in EnumLists}

\* every name with a few values, and every value with a few names
CallArgs ==
    (Names \X {<<>>, <<"1">>, <<"x">>})
        \cup ({<<"h", "r", "e", "f">>, <<"d", "a", "t", "a", "-", "x">>} \X Values)

NoCall ==
    [t |-> "format", name |-> <<>>, value |-> <<>>, isCustomRule |-> FALSE, spec |-> NoSpec]

\* the arguments of one call
CallOf(t, nv, isCustomRule, spec) ==
    [t |-> t, name |-> nv[1], value |-> nv[2], isCustomRule |-> isCustomRule, spec |-> spec]

Call ==
    /\ pc = "idle"
    /\ pc' = "done"
    /\ result' = attrCheck(call.t, call.name, call.value, call.isCustomRule, call.spec)
    /\ UNCHANGED <<call, doc, wpc, vpc, awaiting, pending, visited, reports>>

-----------------------------------------------------------------------------
(* Documents *)

\* el.rule.value of the class-naming rule: string | string[] | null
NullValue == [kind |-> "null", items |-> <<>>]
StringValue(string) == [kind |-> "string", items |-> <<string>>]
ArrayValue(items) == [kind |-> "array", items |-> items]

\* an attribute token of getAttributeToken('class')
Token(isDynamicValue, value) == [isDynamicValue |-> isDynamicValue, value |-> value]

\* getAttribute('aria-busy'): string | null
NoAttr == [present |-> FALSE, value |-> <<>>]
Attr(value) == [present |-> TRUE, value |-> value]

TrueString == <<"t", "r", "u", "e">>
FalseString == <<"f", "a", "l", "s", "e">>

ElementNode(parent, ruleValue, classTokens, palpable, void, ariaBusy, ignoreIfAriaBusy) ==
    [kind |-> "Element", parent |-> parent, whitespace |-> FALSE,
     ruleValue |-> ruleValue, classTokens |-> classTokens,
     palpable |-> palpable, void |-> void,
     ariaBusy |-> ariaBusy, ignoreIfAriaBusy |-> ignoreIfAriaBusy]

TextNode(parent, whitespace) ==
    [kind |-> "Text", parent |-> parent, whitespace |-> whitespace,
     ruleValue |-> NullValue, classTokens |-> <<>>,
     palpable |-> FALSE, void |-> FALSE,
     ariaBusy |-> NoAttr, ignoreIfAriaBusy |-> FALSE]

\* the children of node p (0: the document), in document order
Children(nodes, p) ==
    LET RECURSIVE From(_)
        From(i) ==
            IF i > Len(nodes) THEN <<>>
            ELSE (IF nodes[i].parent = p THEN <<i>> ELSE <<>>) \o From(i + 1)
    IN  From(1)

-----------------------------------------------------------------------------
(* The class-naming rule (rules.mjs, lines 252-298) *)

IsSpace(c) == c = " "

\* value.split(/\s+/g).map(c => c.trim()).filter(c => c)
RECURSIVE SplitFrom(_, _, _)
SplitFrom(s, i, word) ==
    IF i > Len(s) THEN (IF word = <<>> THEN <<>> ELSE <<word>>)
    ELSE IF IsSpace(s[i])
         THEN (IF word = <<>> THEN <<>> ELSE <<word>>) \o SplitFrom(s, i + 1, <<>>)
         ELSE SplitFrom(s, i + 1, Append(word, s[i]))

classListOf(value) == SplitFrom(value, 1, <<>>)

\* !el.rule.value
isFalsyValue(ruleValue) ==
    \/ ruleValue.kind = "null"
    \/ ruleValue.kind = "string" /\ ruleValue.items[1] = <<>>

\* toNoEmptyStringArrayFromStringOrArray (@markuplint/shared)
toNoEmptyStringArrayFromStringOrArray(ruleValue) ==
    SelectSeq(ruleValue.items, LAMBDA item : item # <<>>)

\* match(className, pattern) of ../helpers, for a pattern that is a plain string
match(className, pattern) == className = pattern

\* `"${classPatterns.join('", "')}"`
RECURSIVE joinPatterns(_, _)
joinPatterns(classPatterns, i) ==
    IF i > Len(classPatterns) THEN <<>>
    ELSE (IF i > 1 THEN <<"\", \"">> ELSE <<>>) \o classPatterns[i]
         \o joinPatterns(classPatterns, i + 1)

Tpl_Unmatched == <<Arg(0), Lit(" is unmatched with the below patterns: "), Arg(1)>>

Report(scope, token, className, message) ==
    [scope |-> scope, token |-> token, className |-> className, message |-> message]

\* a slip: a class name that comes twice in a token is reported once
reportsOfToken_dedup(t, el, k, attr, classPatterns) ==
    IF attr.isDynamicValue THEN <<>>
    ELSE LET classList == classListOf(attr.value)
             RECURSIVE Firsts(_)
             Firsts(i) ==
                 IF i > Len(classList) THEN <<>>
                 ELSE (IF \E j \in 1..(i - 1) : classList[j] = classList[i]
                       THEN <<>> ELSE <<classList[i]>>) \o Firsts(i + 1)
             unmatched == SelectSeq(Firsts(1),
                              LAMBDA className :
                                  ~\E i \in 1..Len(classPatterns) :
                                      match(className, classPatterns[i]))
         IN  [j \in 1..Len(unmatched) |->
                 Report(el, k, unmatched[j],
                     Translate(t, Tpl_Unmatched,
                         <<Translate(t, Tpl_TheNamed, <<unmatched[j], Word("class name")>>),
                           <<"\"">> \o joinPatterns(classPatterns, 1) \o <<"\"">> >>))]

\* the reports of one class token (lines 272-294)
reportsOfToken(t, el, k, attr, classPatterns) ==
    IF attr.isDynamicValue THEN <<>>
    ELSE LET classList == classListOf(attr.value)
             unmatched == SelectSeq(classList,
                              LAMBDA className :
                                  ~\E i \in 1..Len(classPatterns) :
                                      match(className, classPatterns[i]))
         IN  [j \in 1..Len(unmatched) |->
                 Report(el, k, unmatched[j],
                     Translate(t, Tpl_Unmatched,
                         <<Translate(t, Tpl_TheNamed, <<unmatched[j], Word("class name")>>),
                           <<"\"">> \o joinPatterns(classPatterns, 1) \o <<"\"">> >>))]

\* a slip: the class tokens are taken last to first
classNameCallback_lastFirst(t, nodes, el) ==
    IF isFalsyValue(nodes[el].ruleValue) THEN <<>>
    ELSE LET classPatterns == toNoEmptyStringArrayFromStringOrArray(nodes[el].ruleValue)
             attrs == nodes[el].classTokens
             RECURSIVE From(_)
             From(k) ==
                 IF k < 1 THEN <<>>
                 ELSE reportsOfToken(t, el, k, attrs[k], classPatterns) \o From(k - 1)
         IN  From(Len(attrs))

\* a slip: a dynamic token ends the loop (break for continue)
classNameCallback_break(t, nodes, el) ==
    IF isFalsyValue(nodes[el].ruleValue) THEN <<>>
    ELSE LET classPatterns == toNoEmptyStringArrayFromStringOrArray(nodes[el].ruleValue)
             attrs == nodes[el].classTokens
             RECURSIVE From(_)
             From(k) ==
                 IF k > Len(attrs) \/ attrs[k].isDynamicValue THEN <<>>
                 ELSE reportsOfToken(t, el, k, attrs[k], classPatterns) \o From(k + 1)
         IN  From(1)

\* the callback of the class-naming rule: the reports it makes for element el
classNameCallback(t, nodes, el) ==
    IF isFalsyValue(nodes[el].ruleValue) THEN <<>>
    ELSE LET classPatterns == toNoEmptyStringArrayFromStringOrArray(nodes[el].ruleValue)
             attrs == nodes[el].classTokens
             RECURSIVE From(_)
             From(k) ==
                 IF k > Len(attrs) THEN <<>>
                 ELSE reportsOfToken(t, el, k, attrs[k], classPatterns) \o From(k + 1)
         IN  From(1)

-----------------------------------------------------------------------------
(* The no-empty-palpable-content rule (part_000) *)

Tpl_ShouldNot == <<Arg(0), Lit(" should not "), Arg(1)>>

\* Array.from(el.childNodes).every(node => node.is(node.TEXT_NODE) && node.isWhitespace())
isEmpty(nodes, el) ==
    \A i \in 1..Len(nodes) :
        nodes[i].parent = el => (nodes[i].kind = "Text" /\ nodes[i].whitespace)

\* a slip: aria-busy="true" suppresses the report whatever the option says
palpableCallback_busyAlways(t, nodes, el) ==
    IF ~nodes[el].palpable THEN <<>>
    ELSE IF nodes[el].void THEN <<>>
    ELSE IF nodes[el].ariaBusy.present /\ nodes[el].ariaBusy.value = TrueString
         THEN <<>>
    ELSE IF isEmpty(nodes, el)
         THEN <<Report(el, 0, <<>>,
                    Translate(t, Tpl_ShouldNot,
                        <<Translate(t, Tpl_The, <<Word("element")>>), Word("empty")>>))>>
    ELSE <<>>

\* the callback of the rule: the reports it makes for element el
palpableCallback(t, nodes, el) ==
    IF ~nodes[el].palpable THEN <<>>
    ELSE IF nodes[el].void THEN <<>>
    ELSE IF nodes[el].ignoreIfAriaBusy
            /\ nodes[el].ariaBusy.present /\ nodes[el].ariaBusy.value = TrueString
         THEN <<>>
    ELSE IF isEmpty(nodes, el)
         THEN <<Report(el, 0, <<>>,
                    Translate(t, Tpl_ShouldNot,
                        <<Translate(t, Tpl_The, <<Word("element")>>), Word("empty")>>))>>
    ELSE <<>>

-----------------------------------------------------------------------------
(* verify: document.walkOn('Element', callback) *)

\* the translator verify is given
WalkTranslator == "format"

NextNode == Head(pending)

\* walkOn goes on: the children of the node just passed come first, then the
\* nodes that were already waiting
pendingAfter(nodes, waiting) == Children(nodes, Head(waiting)) \o Tail(waiting)

\* walkOn comes to an element and awaits the callback of the class-naming rule
VisitClassName ==
    /\ wpc = "walking" /\ pending # <<>>
    /\ doc.rule = "class-naming"
    /\ doc.nodes[NextNode].kind = "Element"
    /\ awaiting = <<>>
    /\ awaiting' = <<NextNode>>
    /\ visited' = Append(visited, NextNode)
    /\ reports' = reports \o classNameCallback(WalkTranslator, doc.nodes, NextNode)
    /\ pending' = pendingAfter(doc.nodes, pending)
    /\ UNCHANGED <<pc, call, result, doc, wpc, vpc>>

\* walkOn comes to an element and awaits the callback of the
\* no-empty-palpable-content rule
VisitPalpable ==
    /\ wpc = "walking" /\ pending # <<>>
    /\ doc.rule = "no-empty-palpable-content"
    /\ doc.nodes[NextNode].kind = "Element"
    /\ awaiting = <<>>
    /\ awaiting' = <<NextNode>>
    /\ visited' = Append(visited, NextNode)
    /\ reports' = reports \o palpableCallback(WalkTranslator, doc.nodes, NextNode)
    /\ pending' = pendingAfter(doc.nodes, pending)
    /\ UNCHANGED <<pc, call, result, doc, wpc, vpc>>

\* walkOn passes a node that is no Element
SkipNode ==
    /\ wpc = "walking" /\ pending # <<>>
    /\ doc.nodes[NextNode].kind # "Element"
    /\ awaiting = <<>>
    /\ pending' = pendingAfter(doc.nodes, pending)
    /\ UNCHANGED <<pc, call, result, doc, wpc, vpc, awaiting, visited, reports>>

\* the callback walkOn awaits has returned: walkOn goes on
Settle ==
    /\ wpc = "walking" /\ awaiting # <<>>
    /\ awaiting' = Tail(awaiting)
    /\ UNCHANGED <<pc, call, result, doc, wpc, vpc, pending, visited, reports>>

\* every node was visited and no callback is awaited: walkOn resolves
Resolve ==
    /\ wpc = "walking" /\ pending = <<>> /\ awaiting = <<>>
    /\ wpc' = "resolved"
    /\ UNCHANGED <<pc, call, result, doc, vpc, awaiting, pending, visited, reports>>

\* a slip: verify does not await walkOn
Return_noAwait ==
    /\ vpc = "pending"
    /\ vpc' = "resolved"
    /\ UNCHANGED <<pc, call, result, doc, wpc, awaiting, pending, visited, reports>>

\* `await document.walkOn(...)` is over and verify has nothing left to do: its
\* promise resolves
Return ==
    /\ vpc = "pending" /\ wpc = "resolved"
    /\ vpc' = "resolved"
    /\ UNCHANGED <<pc, call, result, doc, wpc, awaiting, pending, visited, reports>>

-----------------------------------------------------------------------------
(* The documents verified *)

\* class attribute values: none, one name, names apart by one or more spaces,
\* a name twice
ClassValues ==
    { <<>>, <<"a">>, <<"b">>, <<" ", "a">>, <<"a", " ", "b">>,
      <<"b", " ", "b">>, <<"b", " ", " ", "a", " ">> }

RuleValues ==
    { NullValue, StringValue(<<>>), StringValue(<<"a">>),
      ArrayValue(<<>>), ArrayValue(<< <<"a">>, <<>>, <<"c">> >>) }

RECURSIVE SeqsUpTo(_, _)
SeqsUpTo(S, n) ==
    IF n = 0 THEN {<<>>}
    ELSE LET shorter == SeqsUpTo(S, n - 1)
         IN  shorter \cup {Append(q, x) : q \in shorter, x \in S}

TokenLists ==
    SeqsUpTo({Token(d, v) : d \in BOOLEAN, v \in ClassValues}, MaxTokens)

\* the nodes a document under the class-naming rule is made of, with their
\* parent among `parents`
ClassNodes(parents) ==
    {TextNode(p, TRUE) : p \in parents}
        \cup {ElementNode(p, rv, toks, FALSE, FALSE, NoAttr, FALSE) :
                 p \in parents,
                 rv \in {NullValue, StringValue(<<"a">>)},
                 toks \in { <<>>, <<Token(FALSE, <<"b">>)>>, <<Token(TRUE, <<"b">>)>> }}

\* the nodes a document under the no-empty-palpable-content rule is made of
PalpableNodes(parents) ==
    {TextNode(p, w) : p \in parents, w \in BOOLEAN}
        \cup {ElementNode(p, NullValue, <<>>, TRUE, FALSE, NoAttr, TRUE) : p \in parents}
        \cup {ElementNode(p, NullValue, <<>>, TRUE, FALSE, Attr(TrueString), i) :
                 p \in parents, i \in BOOLEAN}
        \cup {ElementNode(p, NullValue, <<>>, TRUE, FALSE, Attr(FalseString), TRUE) :
                 p \in parents}
        \cup {ElementNode(p, NullValue, <<>>, TRUE, TRUE, NoAttr, TRUE) : p \in parents}
        \cup {ElementNode(p, NullValue, <<>>, FALSE, FALSE, NoAttr, TRUE) : p \in parents}

NodesOf(rule, parents) ==
    IF rule = "class-naming" THEN ClassNodes(parents) ELSE PalpableNodes(parents)

\* the parent of a node is the document (0) or an element before the node
WellFormed(nodes) ==
    \A i \in 1..Len(nodes) :
        /\ nodes[i].parent < i
        /\ nodes[i].parent # 0 => nodes[nodes[i].parent].kind = "Element"

\* the parents of n nodes: each is the document (0) or a node before
ParentLists(n) == {parents \in [1..n -> 0..(n - 1)] : \A i \in 1..n : parents[i] < i}

Rules == {"class-naming", "no-empty-palpable-content"}

\* one element under the class-naming rule, with every rule value and every
\* list of at most MaxTokens class tokens
ClassDocs ==
    {[rule |-> "class-naming",
      nodes |-> <<ElementNode(0, rv, toks, FALSE, FALSE, NoAttr, FALSE)>>] :
        rv \in RuleValues, toks \in TokenLists}

NoDoc == [rule |-> "none", nodes |-> <<>>]

-----------------------------------------------------------------------------
(* Specifications *)

\* a call of attrCheck
Init ==
    /\ pc = "idle"
    /\ \E t \in Translators, nv \in CallArgs, isCustomRule \in BOOLEAN, spec \in Specs :
           call = CallOf(t, nv, isCustomRule, spec)
    /\ result = Valid
    /\ doc = NoDoc
    /\ wpc = "idle"
    /\ vpc = "idle"
    /\ awaiting = <<>>
    /\ pending = <<>>
    /\ visited = <<>>
    /\ reports = <<>>

Next == Call

Spec == Init /\ [][Next]_vars

\* a rule's verify is called with a document
Verify ==
    /\ wpc = "idle"
    /\ wpc' = "walking"
    /\ vpc' = "pending"
    /\ pending' = Children(doc.nodes, 0)
    /\ UNCHANGED <<pc, call, result, doc, awaiting, visited, reports>>

InitWalk ==
    /\ pc = "idle"
    /\ call = NoCall
    /\ result = Valid
    /\ \/ \E rule \in Rules, n \in 0..MaxNodes :
              \E parents \in ParentLists(n), content \in [1..n -> NodesOf(rule, {0})] :
                  LET nodes == [i \in 1..n |-> [content[i] EXCEPT !.parent = parents[i]]]
                  IN  /\ WellFormed(nodes)
                      /\ doc = [rule |-> rule, nodes |-> nodes]
       \/ doc \in ClassDocs
    /\ wpc = "idle"
    /\ vpc = "idle"
    /\ awaiting = <<>>
    /\ pending = <<>>
    /\ visited = <<>>
    /\ reports = <<>>

NextWalk ==
    \/ Verify
    \/ VisitClassName
    \/ VisitPalpable
    \/ SkipNode
    \/ Settle
    \/ Resolve
    \/ Return

SpecWalk == InitWalk /\ [][NextWalk]_vars

-----------------------------------------------------------------------------
(* Properties of attrCheck *)

Done == pc = "done"

\* the name is one the exemption is written for
ExemptName(name) == isDataName(name) \/ isAriaName(name)

\* the call got as far as valueCheck
ValueChecked == ~(~call.isCustomRule /\ ExemptName(call.name)) /\ call.spec.defined

\* what valueCheck answered for the call's value
invalidOfCall == valueCheck(call.t, call.name, call.value, call.spec)

HasChunk(message, chunk) == \E i \in 1..Len(message) : message[i] = chunk

InvalidValue == result.invalid /\ result.invalidType = "invalid-value"
NonExistent == result.invalid /\ result.invalidType = "non-existent"

\* C1: with isCustomRule false, attrCheck returns false for every name that is
\* data-<something>, aria-<something> or role, whatever the value and whether
\* or not a spec is supplied.
C1_ExemptIsValid ==
    (Done /\ ~call.isCustomRule /\ ExemptName(call.name)) => result = Valid

C1_Witness ==
    /\ Done /\ ~call.isCustomRule /\ ~call.spec.defined
    /\ call.name = <<"d", "a", "t", "a", "-", "x">>
    /\ result = Valid

\* C2 as stated: whenever spec is undefined the result is Invalid 'non-existent',
\* for every name, value and isCustomRule flag.
C2_UndefinedIsNonExistent ==
    (Done /\ ~call.spec.defined) => NonExistent

\* C2 as amended: when spec is undefined, the result is Invalid 'non-existent'
\* unless the exemption applies (isCustomRule false and an exempt name), and in
\* that case it is false.
C2_UndefinedUnlessExempt ==
    (Done /\ ~call.spec.defined) =>
        IF ~call.isCustomRule /\ ExemptName(call.name)
        THEN result = Valid
        ELSE NonExistent

C2_Witness ==
    /\ Done /\ ~call.spec.defined /\ call.isCustomRule
    /\ ExemptName(call.name) /\ NonExistent

C4_EnumListOfCall ==
    IF call.spec.hasEnum THEN call.spec.enum
    ELSE IF call.spec.type = "ReferrerPolicy" THEN ReferrerPolicyValues
    ELSE CSSBlendModeValues

C4_EnumCaseInsensitive ==
    /\ Len(ReferrerPolicyValues) = 9 /\ includes(ReferrerPolicyValues, <<>>)
    /\ Len(CSSBlendModeValues) = 16
    /\ (Done /\ ValueChecked
             /\ (call.spec.hasEnum \/ call.spec.type \in {"ReferrerPolicy", "CSSBlendMode"})) =>
           LET member == \E i \in 1..Len(C4_EnumListOfCall) :
                             C4_EnumListOfCall[i] = toLowerCase(call.value)
           IN  /\ invalidOfCall.isFalse <=> member
               /\ member => result = Valid
               /\ (~member /\ call.t = "format") => InvalidValue

C4_Witness ==
    /\ Done /\ ValueChecked /\ call.spec.type = "ReferrerPolicy"
    /\ call.value = <<"N", "o", "-", "R", "e", "f", "e", "r", "r", "e", "r">>
    /\ result = Valid

\* the number a string denotes lies in [min, max]: n / 10^k with n an integer
C5_NumberIn(s, min, max) ==
    /\ floatCheck(s)
    /\ \E n \in (min * Pow10(Scale(s)))..(max * Pow10(Scale(s))) : Numerator(s) = n

\* C5: CSSOpacity: a value suffixed by % is valid iff its number lies in
\* [0,100]; any other value is valid iff it is an unsuffixed number in [0,1].
C5_OpacityDomains ==
    (Done /\ ValueChecked /\ ~call.spec.hasEnum /\ call.spec.type = "CSSOpacity") =>
        LET v == call.value
            percent == v # <<>> /\ v[Len(v)] = "%"
        IN  invalidOfCall.isFalse <=>
                IF percent
                THEN C5_NumberIn(SubSeq(v, 1, Len(v) - 1), 0, 100)
                ELSE C5_NumberIn(v, 0, 1)

\* C6: TabIndex: valid iff an integer >= -1; an integer below -1 gets the
\* 'behaves the same as -1' message and a non-integer the 'either -1, zero,
\* non-negative integer' message, never both.
C6_TabIndex ==
    (Done /\ ValueChecked /\ ~call.spec.hasEnum /\ call.spec.type = "TabIndex") =>
        LET isInt == intCheck(call.value)
            ok    == isInt /\ parseInt(call.value) >= -1
            m     == invalidOfCall.message
        IN  /\ invalidOfCall.isFalse <=> ok
            /\ ok => result = Valid
            /\ (~ok /\ call.t = "format") =>
                   /\ InvalidValue /\ result.message = m
                   /\ HasChunk(m, " behaves the same as ") <=> isInt
                   /\ HasChunk(m, "either ") <=> ~isInt

C6_Witness ==
    /\ Done /\ ValueChecked /\ call.spec.type = "TabIndex" /\ call.t = "format"
    /\ call.value = <<"-", "5">>
    /\ InvalidValue /\ HasChunk(result.message, " behaves the same as ")

C8_UncheckedTypeIsValid ==
    (Done /\ call.spec.defined /\ ~call.spec.hasEnum
          /\ call.spec.type \notin CheckedTypes \cup {"NonEmptyString"}) =>
        result = Valid

C8_Witness ==
    /\ Done /\ ValueChecked /\ call.isCustomRule
    /\ call.spec.type = "SVGViewBox" /\ call.value = <<>> /\ result = Valid

-----------------------------------------------------------------------------
(* Properties of the rules and of the walk *)

\* the nodes of a list and of their subtrees, parent before children
RECURSIVE PreOrderOf(_, _)
PreOrderOf(nodes, list) ==
    IF list = <<>> THEN <<>>
    ELSE <<Head(list)>>
             \o PreOrderOf(nodes, Children(nodes, Head(list)))
             \o PreOrderOf(nodes, Tail(list))

\* the Element nodes of the document in document order
ElementsInOrder ==
    SelectSeq(PreOrderOf(doc.nodes, Children(doc.nodes, 0)),
        LAMBDA i : doc.nodes[i].kind = "Element")

\* the place of an element in document order
PlaceOf(el) == CHOOSE i \in 1..Len(ElementsInOrder) : ElementsInOrder[i] = el

IsPrefix(p, q) == Len(p) <= Len(q) /\ SubSeq(q, 1, Len(p)) = p

ReportedAt(el, k) ==
    \E i \in 1..Len(reports) : reports[i].scope = el /\ reports[i].token = k

\* the token holds a class name that none of the element's patterns equals
HasUnmatchedName(node, k) ==
    LET names    == classListOf(node.classTokens[k].value)
        patterns == {node.ruleValue.items[i] : i \in 1..Len(node.ruleValue.items)} \ {<<>>}
    IN  \E j \in 1..Len(names) : names[j] \notin patterns

\* C9: in the class-naming rule a dynamic class token is never reported,
\* whatever its value and the patterns; a token is reported only if it is not
\* dynamic; and a dynamic token does not keep the other tokens of the element
\* from being checked: every static token with an unmatched name is reported.
C9_DynamicTokenExempt ==
    doc.rule = "class-naming" =>
        /\ \A i \in 1..Len(reports) :
               ~doc.nodes[reports[i].scope].classTokens[reports[i].token].isDynamicValue
        /\ \A v \in 1..Len(visited) :
               LET node == doc.nodes[visited[v]]
               IN  ~isFalsyValue(node.ruleValue) =>
                       \A k \in 1..Len(node.classTokens) :
                           ReportedAt(visited[v], k) <=>
                               (~node.classTokens[k].isDynamicValue /\ HasUnmatchedName(node, k))

C9_Witness ==
    /\ doc.rule = "class-naming" /\ wpc = "resolved" /\ visited = <<1>>
    /\ Len(doc.nodes[1].classTokens) = 2
    /\ doc.nodes[1].classTokens[1] = Token(TRUE, <<"b">>)
    /\ doc.nodes[1].classTokens[2] = Token(FALSE, <<"b">>)
    /\ ~ReportedAt(1, 1) /\ ReportedAt(1, 2)

\* C10: the walk invokes the callback once for each Element node, in document
\* pre-order, whether or not a callback returned early; the diagnostics come
\* in document order (by element, then by class token).
C10_PreOrderOnce ==
    /\ IsPrefix(visited, ElementsInOrder)
    /\ wpc = "resolved" =>
           /\ visited = ElementsInOrder
           /\ Len(visited) = Cardinality({i \in 1..Len(doc.nodes) : doc.nodes[i].kind = "Element"})
           /\ \A i, j \in 1..Len(visited) : i # j => visited[i] # visited[j]
    /\ \A i \in 1..Len(reports) : \E v \in 1..Len(visited) : visited[v] = reports[i].scope
    /\ \A i, j \in 1..Len(reports) :
           i < j =>
               \/ PlaceOf(reports[i].scope) < PlaceOf(reports[j].scope)
               \/ /\ reports[i].scope = reports[j].scope
                  /\ reports[i].token <= reports[j].token

\* an element that returned early, its child visited next and reported, then
\* the sibling
C10_Witness ==
    /\ wpc = "resolved" /\ doc.rule = "class-naming"
    /\ visited = <<1, 3, 2>>
    /\ isFalsyValue(doc.nodes[1].ruleValue)
    /\ Len(reports) = 2 /\ reports[1].scope = 3 /\ reports[2].scope = 2

\* C11: verify resolves only after walkOn has visited every element and every
\* callback has returned; once verify has resolved no element is visited and
\* no diagnostic is reported; and at no time are two callbacks of the walk in
\* progress.
C11_VerifyResolvesLast ==
    /\ [](Len(awaiting) <= 1)
    /\ [](vpc = "resolved" =>
             /\ wpc = "resolved" /\ pending = <<>> /\ awaiting = <<>>
             /\ visited = ElementsInOrder)
    /\ [][vpc = "resolved" => (reports' = reports /\ visited' = visited)]_vars

\* verify has resolved after two elements were visited and reported
C11_Witness ==
    /\ vpc = "resolved" /\ doc.rule = "no-empty-palpable-content"
    /\ visited = <<1, 2>> /\ awaiting = <<>>
    /\ Len(reports) = 2 /\ reports[1].scope = 1 /\ reports[2].scope = 2

\* the number of diagnostics whose scope is the element
ReportCount(el) == Cardinality({i \in 1..Len(reports) : reports[i].scope = el})

\* every child of the element is a text node of white space only
OnlyWhitespaceInside(el) ==
    LET children == Children(doc.nodes, el)
    IN  \A c \in 1..Len(children) :
            doc.nodes[children[c]].kind = "Text" /\ doc.nodes[children[c]].whitespace

\* the option is set and the element has aria-busy="true"
Suppressed(node) ==
    node.ignoreIfAriaBusy /\ node.ariaBusy = Attr(TrueString)

\* C12: the no-empty-palpable-content rule reports an element once if it is
\* palpable, not void, not suppressed (option ignoreIfAriaBusy set and
\* aria-busy equal to "true") and has only white-space text children (or no
\* child); in every other case it reports nothing for the element; no
\* element is reported twice.
C12_OneReportIffEmptyPalpable ==
    doc.rule = "no-empty-palpable-content" =>
        /\ \A i \in 1..Len(reports) :
               \E v \in 1..Len(visited) : visited[v] = reports[i].scope
        /\ \A v \in 1..Len(visited) :
               LET node == doc.nodes[visited[v]]
               IN  ReportCount(visited[v]) =
                       IF /\ node.palpable /\ ~node.void /\ ~Suppressed(node)
                          /\ OnlyWhitespaceInside(visited[v])
                       THEN 1 ELSE 0

\* an element with aria-busy="true", the option off and two white-space
\* children is reported once
C12_Witness ==
    /\ doc.rule = "no-empty-palpable-content" /\ vpc = "resolved"
    /\ Len(doc.nodes) = 3 /\ visited = <<1>>
    /\ doc.nodes[1].ariaBusy = Attr(TrueString) /\ ~doc.nodes[1].ignoreIfAriaBusy
    /\ Children(doc.nodes, 1) = <<2, 3>>
    /\ ReportCount(1) = 1 /\ Len(reports) = 1

\* the class names of a token, one entry for each time a name is written
NameOccurrences(token, className) ==
    LET names == classListOf(token.value)
    IN  Cardinality({j \in 1..Len(names) : names[j] = className})

\* the class name equals one of the non-empty patterns of the rule value
MatchesPattern(ruleValue, className) ==
    \E i \in 1..Len(ruleValue.items) :
        ruleValue.items[i] # <<>> /\ match(className, ruleValue.items[i])

\* the diagnostics made for a class name of a token of an element
ReportsFor(el, k, className) ==
    Cardinality({i \in 1..Len(reports) :
        reports[i].scope = el /\ reports[i].token = k /\ reports[i].className = className})

\* the names written in the class tokens of the document, and those reported
ClassNamesOf(el) ==
    UNION {{classListOf(doc.nodes[el].classTokens[k].value)[j] :
               j \in 1..Len(classListOf(doc.nodes[el].classTokens[k].value))} :
           k \in 1..Len(doc.nodes[el].classTokens)}
        \cup {reports[i].className : i \in 1..Len(reports)}

\* C13: the class-naming rule makes one diagnostic for each time a non-empty
\* class name is written in a class token that is not dynamic and the name
\* matches none of the patterns: a name written twice, or in two tokens, is
\* reported each time; an element whose rule value is null or falsy gets no
\* diagnostic; and there is no other diagnostic.
C13_OneReportPerOccurrence ==
    doc.rule = "class-naming" =>
        /\ \A i \in 1..Len(reports) :
               /\ reports[i].className # <<>>
               /\ \E v \in 1..Len(visited) :
                      /\ visited[v] = reports[i].scope
                      /\ reports[i].token \in 1..Len(doc.nodes[visited[v]].classTokens)
        /\ \A v \in 1..Len(visited) :
               LET el   == visited[v]
                   node == doc.nodes[el]
               IN  /\ isFalsyValue(node.ruleValue) => ReportCount(el) = 0
                   /\ \A k \in 1..Len(node.classTokens), c \in ClassNamesOf(el) :
                          ReportsFor(el, k, c) =
                              IF \/ isFalsyValue(node.ruleValue)
                                 \/ node.classTokens[k].isDynamicValue
                                 \/ MatchesPattern(node.ruleValue, c)
                              THEN 0
                              ELSE NameOccurrences(node.classTokens[k], c)

\* the name b, written twice in each of two tokens, is reported four times;
\* the pattern a does not match it
C13_Witness ==
    /\ doc.rule = "class-naming" /\ vpc = "resolved" /\ visited = <<1>>
    /\ doc.nodes[1].ruleValue = StringValue(<<"a">>)
    /\ doc.nodes[1].classTokens =
           <<Token(FALSE, <<"b", " ", "b">>), Token(FALSE, <<"b", " ", "b">>)>>
    /\ Len(reports) = 4 /\ ReportsFor(1, 1, <<"b">>) = 2 /\ ReportsFor(1, 2, <<"b">>) = 2

\* C14: the exemption is applied only when isCustomRule is false; with
\* isCustomRule true a data-*, aria-* or role name is treated as any other
\* name. The three tests come in the order exemption, existence, value: an
\* exempt call is valid whether or not a spec is given; otherwise a call
\* without spec is 'non-existent' whatever its value; otherwise the result is
\* what the value check of the spec gives: 'invalid-value' with the message of
\* the check when the check answers a non-empty message, and false when not.
C14_ExemptionExistenceValue ==
    Done =>
        LET exempt == ~call.isCustomRule /\ ExemptName(call.name)
        IN  /\ exempt => result = Valid
            /\ (~exempt /\ ~call.spec.defined) =>
                   NonExistent
            /\ (~exempt /\ call.spec.defined) =>
                   IF invalidOfCall.isFalse \/ invalidOfCall.message = <<>>
                   THEN result = Valid
                   ELSE /\ InvalidValue
                        /\ result.message = invalidOfCall.message

\* in a custom rule an aria-* name with a spec gets its value checked
C14_Witness ==
    /\ Done /\ call.isCustomRule /\ call.t = "format"
    /\ isAriaName(call.name) /\ call.name # RoleName
    /\ call.spec.type = "Int" /\ call.value = <<"x">>
    /\ InvalidValue /\ HasChunk(result.message, " expects ")

====
